---- MODULE Spec2Model ----
(***************************************************************************)
(* Model of the text-to-speech conversion pipeline: the text normalizer    *)
(* and chunker of TextToSpeechConverter (app.py), its convert loop with    *)
(* the audio assembly, and the interspersion and padding steps of          *)
(* NixTokenizerEN (tokenizer_en.py).                                       *)
(*                                                                         *)
(* A Python str is a sequence of one-character strings, so that len, split,*)
(* strip and join are computed character by character as Python does.      *)
(***************************************************************************)
EXTENDS Integers, Sequences, FiniteSets, TLC

\* ---------------------------------------------------------------- bounds
MaxTextLen == 6        \* longest raw input text of the chunker runs
MaxChunkSize == 3      \* largest small chunk_size of the chunker runs
MaxFileLen == 5        \* longest input file content of the convert runs
MaxConvChunkSize == 2  \* largest chunk_size of the convert runs
MaxAudioLen == 2       \* longest audio segment the inference returns
MaxRate == 2           \* largest sample_rate of the convert runs
MaxDurQ == 3           \* largest silence_duration, in 1/DurDenom seconds
DurDenom == 4          \* resolution of silence_duration: silence_q / DurDenom
MaxPhonemes == 2       \* longest phoneme string of the tokenizer runs
MaxBatch == 2          \* largest batch of texts of the tokenizer runs
MaxTokenId == 2        \* largest token id of the vocabulary

\* ------------------------------------------------------ program constants
DefaultChunkSize == 50 \* chunk_size default of __init__
PadToken == 0          \* the separator / padding token of __call__

\* ------------------------------------------------------- Python str model
Whitespace == {" ", "\n"}

TextChars == {"a", "b", ".", " "}

FileChars == {"a", ".", " ", "\n"}

Strings(chars, n) == UNION {[1..k -> chars] : k \in 0..n}

\* "Hello world. This is a test."
HelloText ==
  <<"H","e","l","l","o"," ","w","o","r","l","d","."," ",
    "T","h","i","s"," ","i","s"," ","a"," ","t","e","s","t",".">>

RECURSIVE LStrip(_)
LStrip(s) ==
  IF s # <<>> /\ Head(s) \in Whitespace THEN LStrip(Tail(s)) ELSE s

RECURSIVE RStrip(_)
RStrip(s) ==
  IF s # <<>> /\ s[Len(s)] \in Whitespace
  THEN RStrip(SubSeq(s, 1, Len(s) - 1))
  ELSE s

\* str.strip()
Strip(s) == RStrip(LStrip(s))

\* str.split(): the maximal runs of non-whitespace characters, in order
RECURSIVE SplitWsFrom(_, _, _, _)
SplitWsFrom(s, k, cur, out) ==
  IF k > Len(s)
  THEN IF cur = <<>> THEN out ELSE Append(out, cur)
  ELSE IF s[k] \in Whitespace
       THEN SplitWsFrom(s, k + 1, <<>>, IF cur = <<>> THEN out ELSE Append(out, cur))
       ELSE SplitWsFrom(s, k + 1, Append(cur, s[k]), out)

SplitWs(s) == SplitWsFrom(s, 1, <<>>, <<>>)

\* str.split('. '): the pieces between the non-overlapping occurrences of
\* '. ', scanned left to right; empty pieces are kept, ''.split('. ') is ['']
RECURSIVE SplitPeriodFrom(_, _, _, _)
SplitPeriodFrom(s, k, cur, out) ==
  IF k > Len(s)
  THEN Append(out, cur)
  ELSE IF s[k] = "." /\ k + 1 <= Len(s) /\ s[k + 1] = " "
       THEN SplitPeriodFrom(s, k + 2, <<>>, Append(out, cur))
       ELSE SplitPeriodFrom(s, k + 1, Append(cur, s[k]), out)

SplitPeriod(s) == SplitPeriodFrom(s, 1, <<>>, <<>>)

\* sep.join(parts)
RECURSIVE Join(_, _)
Join(parts, sep) ==
  IF parts = <<>> THEN <<>>
  ELSE IF Len(parts) = 1 THEN parts[1]
  ELSE parts[1] \o sep \o Join(Tail(parts), sep)

\* np.concatenate(arrays) of a non-empty list: the arrays end to end
RECURSIVE ConcatAll(_)
ConcatAll(seqs) ==
  IF seqs = <<>> THEN <<>> ELSE Head(seqs) \o ConcatAll(Tail(seqs))

\* ' '.join(file.read().strip().split())
NormalizeText(raw) == Join(SplitWs(Strip(raw)), <<" ">>)

\* ------------------------------------------------------------ the chunker
\* One pass of the for loop of _split_sentence over words[k..]
RECURSIVE SplitSentenceLoop(_, _, _, _, _, _)
SplitSentenceLoop(words, k, out, temp_chunk, temp_size, cs) ==
  IF k > Len(words)
  THEN IF temp_chunk # <<>>
       THEN Append(out, Join(temp_chunk, <<" ">>) \o <<".">>)
       ELSE out
  ELSE LET word == words[k] IN
       IF temp_size + Len(word) > cs /\ temp_chunk # <<>>
       THEN SplitSentenceLoop(words, k + 1,
                              Append(out, Join(temp_chunk, <<" ">>) \o <<".">>),
                              <<word>>, Len(word), cs)
       ELSE SplitSentenceLoop(words, k + 1, out,
                              Append(temp_chunk, word),
                              temp_size + Len(word) + 1, cs)

\* _split_sentence testing the size before the word is added: a word is
\* appended to a sub-chunk that is not yet over chunk_size
RECURSIVE SplitSentenceLoop_SizeBeforeWord(_, _, _, _, _, _)
SplitSentenceLoop_SizeBeforeWord(words, k, out, temp_chunk, temp_size, cs) ==
  IF k > Len(words)
  THEN IF temp_chunk # <<>>
       THEN Append(out, Join(temp_chunk, <<" ">>) \o <<".">>)
       ELSE out
  ELSE LET word == words[k] IN
       IF temp_size > cs /\ temp_chunk # <<>>
       THEN SplitSentenceLoop_SizeBeforeWord(words, k + 1,
                              Append(out, Join(temp_chunk, <<" ">>) \o <<".">>),
                              <<word>>, Len(word), cs)
       ELSE SplitSentenceLoop_SizeBeforeWord(words, k + 1, out,
                              Append(temp_chunk, word),
                              temp_size + Len(word) + 1, cs)

SplitSentence_SizeBeforeWord(sentence, cs) ==
  SplitSentenceLoop_SizeBeforeWord(SplitWs(sentence), 1, <<>>, <<>>, 0, cs)

SplitSentence(sentence, cs) ==
  SplitSentenceLoop(SplitWs(sentence), 1, <<>>, <<>>, 0, cs)

\* The sentences the for loop of split_text_into_chunks does not skip:
\* the pieces of text.split('. '), stripped, the empty ones dropped
Fragments(text) ==
  LET pieces == SplitPeriod(text)
      stripped == [j \in 1..Len(pieces) |-> Strip(pieces[j])]
  IN SelectSeq(stripped, LAMBDA f : f # <<>>)

\* What the accumulator holds when flushed
FlushChunk(current_chunk) == Join(current_chunk, <<".", " ">>) \o <<".">>

\* One pass of the for loop of split_text_into_chunks over frags[k..]
RECURSIVE SplitTextLoop(_, _, _, _, _, _)
SplitTextLoop(frags, k, out, current_chunk, current_size, cs) ==
  IF k > Len(frags)
  THEN IF current_chunk # <<>>
       THEN Append(out, FlushChunk(current_chunk))
       ELSE out
  ELSE LET sentence == frags[k] IN
       IF Len(sentence) > cs
       THEN SplitTextLoop(frags, k + 1, out \o SplitSentence(sentence, cs),
                          current_chunk, current_size, cs)
       ELSE IF current_size + Len(sentence) > cs /\ current_chunk # <<>>
            THEN SplitTextLoop(frags, k + 1,
                               Append(out, FlushChunk(current_chunk)),
                               <<sentence>>, Len(sentence), cs)
            ELSE SplitTextLoop(frags, k + 1, out,
                               Append(current_chunk, sentence),
                               current_size + Len(sentence), cs)

SplitTextIntoChunks(text, cs) ==
  SplitTextLoop(Fragments(text), 1, <<>>, <<>>, 0, cs)

\* ---------------------------------------------------------- audio model
\* np.zeros(n)
Zeros(n) == [k \in 1..n |-> 0]

\* The product rounded half up instead of truncated
SilenceLen_RoundedUp(rate, q) == (2 * rate * q + DurDenom) \div (2 * DurDenom)

\* int(self.sample_rate * self.silence_duration), the duration being
\* q / DurDenom seconds: int() truncates the product
SilenceLen(rate, q) == (rate * q) \div DurDenom

\* Silence put between the chunks only, none after the last
AppendChunkAudio_SilenceBetween(acs, audio_chunk, sil) ==
  IF acs = <<>> THEN <<audio_chunk>> ELSE acs \o <<sil, audio_chunk>>

\* audio_chunks.append(audio_chunk); audio_chunks.append(silence)
AppendChunkAudio(acs, audio_chunk, sil) == acs \o <<audio_chunk, sil>>

\* What process_chunk may return for the k-th chunk: the inference engine is
\* opaque, so any non-silent segment of up to MaxAudioLen samples; the
\* samples of the k-th chunk are tagged k
AudioSegments(k) == {[j \in 1..n |-> k] : n \in 0..MaxAudioLen}

\* tokenize rejects a text that is empty or blank
IsBlank(text) == Strip(text) = <<>>

\* The exceptions process_chunk may raise for a chunk text: the validation
\* error of tokenize for a blank text, otherwise a vocabulary lookup error
\* of the tokenizer or an inference error of vocalize
ChunkErrors(text) ==
  IF IsBlank(text) THEN {"ValueError"} ELSE {"KeyError", "RuntimeError"}

\* An input path that cannot be opened
NoFile == << "<no such file>" >>

\* ------------------------------------------------------ tokenizer model
\* The phoneme symbols the phonemizer may produce: those of the vocabulary
\* and one that the vocabulary lacks
KnownPhonemes == {"h", "i"}

PhonemeSymbols == KnownPhonemes \cup {"?"}

\* Inserting the item between the elements only, none at the ends
Intersperse_BetweenOnly(lst, item) ==
  [k \in 1..(IF lst = <<>> THEN 0 ELSE 2 * Len(lst) - 1) |->
     IF k % 2 = 1 THEN lst[(k + 1) \div 2] ELSE item]

\* result = [item] * (len(lst) * 2 + 1); result[1::2] = lst
\* (Python index 2j+1 is index 2j+2 here)
Intersperse(lst, item) ==
  [k \in 1..(Len(lst) * 2 + 1) |-> IF k % 2 = 0 THEN lst[k \div 2] ELSE item]

\* [self.vocab_dict[p] for p in phoneme]
MapPhonemes(vocab, phoneme) == [k \in 1..Len(phoneme) |-> vocab[phoneme[k]]]

\* max(tokens_lengths) of a non-empty list
MaxOf(lengths) ==
  CHOOSE m \in {lengths[k] : k \in 1..Len(lengths)} :
     \A k \in 1..Len(lengths) : lengths[k] <= m

\* Every reported length being the padded length
PadTokens_ReportPadded(toks) ==
  LET lens == [b \in 1..Len(toks) |-> Len(toks[b])]
      max_len == MaxOf(lens)
  IN [tokens |-> [b \in 1..Len(toks) |->
                    toks[b] \o [k \in 1..(max_len - Len(toks[b])) |-> PadToken]],
      lengths |-> [b \in 1..Len(toks) |-> max_len]]

\* _pad_tokens of a non-empty batch
PadTokens(toks) ==
  LET lens == [b \in 1..Len(toks) |-> Len(toks[b])]
      max_len == MaxOf(lens)
  IN [tokens |-> [b \in 1..Len(toks) |->
                    toks[b] \o [k \in 1..(max_len - Len(toks[b])) |-> PadToken]],
      lengths |-> lens]

\* ------------------------------------------------------------------ state
VARIABLES
  file,            \* content of the input file, or NoFile
  chunk_size,      \* self.chunk_size
  sample_rate,     \* self.sample_rate
  silence_q,       \* self.silence_duration, in 1/DurDenom seconds
  pc,              \* position in convert
  input_text,      \* the normalized text
  chunks,          \* result of split_text_into_chunks
  i,               \* index of the next chunk of the for loop
  silence,         \* the silence segment
  audio_chunks,    \* the list the loop appends to
  combined_audio,  \* result of np.concatenate, once concatenated
  concatenated,    \* np.concatenate has returned
  output_file,     \* samples written to the output file, once written
  written,         \* wavfile.write has been called
  error,           \* the exception convert ends with, or "None"
  raised_in,       \* the step that raised it
  processed,       \* log: the texts process_chunk was called with, in order
  produced,        \* log: the audio segments process_chunk returned, in order
  texts,           \* number of texts passed to the tokenizer's __call__
  vocab_dict,      \* self.vocab_dict of the tokenizer
  tpc,             \* position in __call__
  phonemes,        \* the phoneme string of each text
  tokens,          \* the interspersed token sequence of each text
  padded,          \* the token sequences returned by _pad_tokens
  tokens_lengths,  \* the lengths returned by _pad_tokens
  terror           \* the exception __call__ ends with, or "None"

vars == <<file, chunk_size, sample_rate, silence_q, pc, input_text, chunks, i,
          silence, audio_chunks, combined_audio, concatenated, output_file,
          written, error, raised_in, processed, produced, texts, vocab_dict,
          tpc, phonemes, tokens, padded, tokens_lengths, terror>>

\* The variables of the tokenizer
tok == <<texts, vocab_dict, tpc, phonemes, tokens, padded, tokens_lengths,
         terror>>

\* The variables of convert
conv == <<file, chunk_size, sample_rate, silence_q, pc, input_text, chunks, i,
          silence, audio_chunks, combined_audio, concatenated, output_file,
          written, error, raised_in, processed, produced>>

config == <<file, chunk_size, sample_rate, silence_q>>

assembly == <<silence, audio_chunks, combined_audio, concatenated, output_file,
              written, processed, produced, i>>

\* The state when convert is entered
ConvertEntered ==
  /\ pc = "start"
  /\ input_text = <<>>
  /\ chunks = <<>>
  /\ i = 1
  /\ silence = <<>>
  /\ audio_chunks = <<>>
  /\ combined_audio = <<>>
  /\ concatenated = FALSE
  /\ output_file = <<>>
  /\ written = FALSE
  /\ error = "None"
  /\ raised_in = "None"
  /\ processed = <<>>
  /\ produced = <<>>

\* The state when the tokenizer's __call__ is entered
CallEntered ==
  /\ tpc = "call"
  /\ phonemes = <<>>
  /\ tokens = <<>>
  /\ padded = <<>>
  /\ tokens_lengths = <<>>
  /\ terror = "None"

\* The tokenizer as convert leaves it: loaded, not in a call of its own
TokenizerIdle ==
  /\ texts = 0
  /\ vocab_dict = [p \in KnownPhonemes |-> 1]
  /\ CallEntered

InitChunker ==
  /\ file \in Strings(TextChars, MaxTextLen) \cup {HelloText}
  /\ chunk_size \in (1..MaxChunkSize) \cup {DefaultChunkSize}
  /\ sample_rate = 1
  /\ silence_q = 0
  /\ ConvertEntered
  /\ TokenizerIdle

InitConvert ==
  /\ file \in Strings(FileChars, MaxFileLen) \cup {NoFile}
  /\ chunk_size \in 1..MaxConvChunkSize
  /\ sample_rate \in 1..MaxRate
  /\ silence_q \in 0..MaxDurQ
  /\ ConvertEntered
  /\ TokenizerIdle

\* open(input_file) raises
ReadRaise ==
  /\ pc = "start"
  /\ file = NoFile
  /\ pc' = "failed"
  /\ error' = "FileNotFoundError"
  /\ raised_in' = "open"
  /\ UNCHANGED <<config, input_text, chunks, assembly>>
  /\ UNCHANGED tok

\* input_text = ' '.join(file.read().strip().split())
ReadAndNormalize ==
  /\ pc = "start"
  /\ file # NoFile
  /\ input_text' = NormalizeText(file)
  /\ pc' = "normalized"
  /\ UNCHANGED <<config, chunks, assembly, error, raised_in>>
  /\ UNCHANGED tok

\* chunks = self.split_text_into_chunks(input_text)
SplitChunks ==
  /\ pc = "normalized"
  /\ chunks' = SplitTextIntoChunks(input_text, chunk_size)
  /\ pc' = "chunked"
  /\ UNCHANGED <<config, input_text, assembly, error, raised_in>>
  /\ UNCHANGED tok

\* audio_chunks = []; silence = np.zeros(int(sample_rate * silence_duration))
MakeSilence ==
  /\ pc = "chunked"
  /\ audio_chunks' = <<>>
  /\ silence' = Zeros(SilenceLen(sample_rate, silence_q))
  /\ pc' = "loop"
  /\ UNCHANGED <<config, input_text, chunks, i, combined_audio, concatenated,
                 output_file, written, error, raised_in, processed, produced>>
  /\ UNCHANGED tok

\* One iteration of the for loop in which process_chunk returns
ProcessChunkOk ==
  /\ pc = "loop"
  /\ i <= Len(chunks)
  /\ ~IsBlank(chunks[i])
  /\ \E audio_chunk \in AudioSegments(i) :
        /\ audio_chunks' = AppendChunkAudio(audio_chunks, audio_chunk, silence)
        /\ produced' = Append(produced, audio_chunk)
  /\ processed' = Append(processed, chunks[i])
  /\ i' = i + 1
  /\ UNCHANGED <<config, pc, input_text, chunks, silence, combined_audio,
                 concatenated, output_file, written, error, raised_in>>
  /\ UNCHANGED tok

\* A best-effort loop: the failing chunk is skipped and the loop goes on
ProcessChunkRaise_SkipChunk ==
  /\ pc = "loop"
  /\ i <= Len(chunks)
  /\ \E e \in ChunkErrors(chunks[i]) : error' = e
  /\ raised_in' = "process_chunk"
  /\ processed' = Append(processed, chunks[i])
  /\ i' = i + 1
  /\ UNCHANGED <<config, pc, input_text, chunks, silence, audio_chunks,
                 combined_audio, concatenated, output_file, written, produced>>
  /\ UNCHANGED tok

\* One iteration of the for loop in which process_chunk raises: the
\* exception leaves the loop, the handler of convert prints and re-raises it
ProcessChunkRaise ==
  /\ pc = "loop"
  /\ i <= Len(chunks)
  /\ \E e \in ChunkErrors(chunks[i]) : error' = e
  /\ raised_in' = "process_chunk"
  /\ processed' = Append(processed, chunks[i])
  /\ pc' = "failed"
  /\ UNCHANGED <<config, input_text, chunks, i, silence, audio_chunks,
                 combined_audio, concatenated, output_file, written, produced>>
  /\ UNCHANGED tok

\* combined_audio = np.concatenate(audio_chunks)
Concatenate ==
  /\ pc = "loop"
  /\ i > Len(chunks)
  /\ audio_chunks # <<>>
  /\ combined_audio' = ConcatAll(audio_chunks)
  /\ concatenated' = TRUE
  /\ pc' = "concatenated"
  /\ UNCHANGED <<config, input_text, chunks, i, silence, audio_chunks,
                 output_file, written, error, raised_in, processed, produced>>
  /\ UNCHANGED tok

\* np.concatenate([]) raises ValueError: need at least one array to
\* concatenate; the handler of convert prints and re-raises it
ConcatenateRaise ==
  /\ pc = "loop"
  /\ i > Len(chunks)
  /\ audio_chunks = <<>>
  /\ error' = "ValueError"
  /\ raised_in' = "concatenate"
  /\ pc' = "failed"
  /\ UNCHANGED <<config, input_text, chunks, assembly>>
  /\ UNCHANGED tok

\* wavfile.write(output_file, self.sample_rate, combined_audio)
WriteFile ==
  /\ pc = "concatenated"
  /\ output_file' = combined_audio
  /\ written' = TRUE
  /\ pc' = "done"
  /\ UNCHANGED <<config, input_text, chunks, i, silence, audio_chunks,
                 combined_audio, concatenated, error, raised_in, processed,
                 produced>>
  /\ UNCHANGED tok

NextChunker == ReadAndNormalize \/ SplitChunks

SpecChunker == InitChunker /\ [][NextChunker]_vars

NextConvert ==
  \/ ReadRaise
  \/ ReadAndNormalize
  \/ SplitChunks
  \/ MakeSilence
  \/ ProcessChunkOk
  \/ ProcessChunkRaise
  \/ Concatenate
  \/ ConcatenateRaise
  \/ WriteFile

SpecConvert == InitConvert /\ [][NextConvert]_vars

\* ------------------------------------------------- tokenizer __call__
InitTokenizer ==
  /\ texts \in 0..MaxBatch
  /\ vocab_dict \in [KnownPhonemes -> 0..MaxTokenId]
  /\ CallEntered
  /\ file = <<>>
  /\ chunk_size = DefaultChunkSize
  /\ sample_rate = 1
  /\ silence_q = 0
  /\ ConvertEntered

\* phonemes = [collapse_whitespace(phonemize(expand_abbreviations(lower)))]:
\* the phonemizer and the configured patterns are external, so each text
\* gets any phoneme string of up to MaxPhonemes symbols
Phonemize ==
  /\ tpc = "call"
  /\ phonemes' \in [1..texts -> Strings(PhonemeSymbols, MaxPhonemes)]
  /\ tpc' = "phonemized"
  /\ UNCHANGED <<conv, texts, vocab_dict, tokens, padded, tokens_lengths,
                 terror>>

\* tokens = [self._intersperse([self.vocab_dict[p] for p in phoneme], 0)]
MapAndIntersperse ==
  /\ tpc = "phonemized"
  /\ \A b \in 1..texts : \A k \in 1..Len(phonemes[b]) :
        phonemes[b][k] \in DOMAIN vocab_dict
  /\ tokens' = [b \in 1..texts |->
                  Intersperse(MapPhonemes(vocab_dict, phonemes[b]), PadToken)]
  /\ tpc' = "mapped"
  /\ UNCHANGED <<conv, texts, vocab_dict, phonemes, padded, tokens_lengths,
                 terror>>

\* self.vocab_dict[p] for a phoneme the vocabulary lacks raises KeyError
MapRaise ==
  /\ tpc = "phonemized"
  /\ \E b \in 1..texts : \E k \in 1..Len(phonemes[b]) :
        phonemes[b][k] \notin DOMAIN vocab_dict
  /\ terror' = "KeyError"
  /\ tpc' = "failed"
  /\ UNCHANGED <<conv, texts, vocab_dict, phonemes, tokens, padded,
                 tokens_lengths>>

\* tokens, tokens_lengths = self._pad_tokens(tokens); return
PadAndReturn ==
  /\ tpc = "mapped"
  /\ tokens # <<>>
  /\ padded' = PadTokens(tokens).tokens
  /\ tokens_lengths' = PadTokens(tokens).lengths
  /\ tpc' = "returned"
  /\ UNCHANGED <<conv, texts, vocab_dict, phonemes, tokens, terror>>

\* max([]) raises ValueError for an empty batch
PadRaise ==
  /\ tpc = "mapped"
  /\ tokens = <<>>
  /\ terror' = "ValueError"
  /\ tpc' = "failed"
  /\ UNCHANGED <<conv, texts, vocab_dict, phonemes, tokens, padded,
                 tokens_lengths>>

NextTokenizer ==
  \/ Phonemize
  \/ MapAndIntersperse
  \/ MapRaise
  \/ PadAndReturn
  \/ PadRaise

SpecTokenizer == InitTokenizer /\ [][NextTokenizer]_vars

\* ------------------------------------------------- claims on the chunker
RemoveDots(s) == SelectSeq(s, LAMBDA c : c # ".")

\* The words of a string, its '.' characters ignored
WordsIgnoringDots(s) == SplitWs(RemoveDots(s))

\* The words of the chunks, read chunk by chunk in output order
ChunkWordSeq ==
  ConcatAll([k \in 1..Len(chunks) |-> WordsIgnoringDots(chunks[k])])

\* The words the chunker works on: the whitespace-separated words of the
\* sentence fragments, in order
FragmentWords(text) ==
  LET frags == Fragments(text)
  IN ConcatAll([j \in 1..Len(frags) |-> SplitWs(frags[j])])

\* A chunk without the '.' the chunker appended to it
ChunkContent(c) == SubSeq(c, 1, Len(c) - 1)

IsLongWord(w) == Len(w) > chunk_size

LongWords == SelectSeq(FragmentWords(input_text), IsLongWord)

HasLongWord(c) ==
  LET ws == FragmentWords(ChunkContent(c))
  IN \E k \in 1..Len(ws) : IsLongWord(ws[k])

LongChunks == SelectSeq(chunks, HasLongWord)

NoWordLongerThanChunkSize ==
  \A w \in {SplitWs(input_text)[k] : k \in 1..Len(SplitWs(input_text))} :
     Len(w) <= chunk_size

\* C1: the words of the returned chunks, read chunk by chunk in output order
\* with the '.' characters ignored, are exactly the words of the normalized
\* input text in their original order: none dropped, duplicated or moved.
C1_WordOrderPreserved ==
  pc = "chunked" => ChunkWordSeq = WordsIgnoringDots(input_text)

\* C2: when no word of the normalized text is longer than chunk_size, every
\* returned chunk, its trailing period not counted, has at most chunk_size
\* characters.
C2_ChunkSizeBound ==
  (pc = "chunked" /\ NoWordLongerThanChunkSize)
     => \A k \in 1..Len(chunks) : Len(chunks[k]) - 1 <= chunk_size

\* C3: with chunk_size = 50 the text "Hello world. This is a test." is split
\* into the fragments "Hello world" and "This is a test" and one chunk is
\* returned, "Hello world. This is a test.", with a single trailing period.
C3_HelloWorldScenario ==
  (pc = "chunked" /\ input_text = HelloText /\ chunk_size = DefaultChunkSize)
     => /\ Fragments(input_text) =
             << SubSeq(HelloText, 1, 11), SubSeq(HelloText, 14, 27) >>
        /\ chunks = << HelloText >>

\* C7: every word longer than chunk_size is returned whole in exactly one
\* chunk, and that chunk is the word followed by the appended '.', whatever
\* precedes or follows the word: the chunks holding a long word are, one for
\* one, the long words of the text, each with '.' appended.
C7_LongWordOwnChunk ==
  pc = "chunked" =>
     /\ Len(LongChunks) = Len(LongWords)
     /\ \A k \in 1..Len(LongChunks) : LongChunks[k] = LongWords[k] \o <<".">>

\* A long word between two chunks of short words has been given its chunk
C7_Witness ==
  /\ pc = "chunked"
  /\ \E k \in 2..(Len(chunks) - 1) :
        /\ HasLongWord(chunks[k])
        /\ ~HasLongWord(chunks[k - 1])
        /\ ~HasLongWord(chunks[k + 1])
        /\ Len(SplitWs(input_text)) >= 3

\* ----------------------------------------------------- claims on convert
RECURSIVE SumLen(_)
SumLen(seqs) == IF seqs = <<>> THEN 0 ELSE Len(Head(seqs)) + SumLen(Tail(seqs))

AllWhitespace(s) == \A k \in 1..Len(s) : s[k] \in Whitespace

\* round(n / d) for n >= 0, d > 0, halves going to the even neighbour
RoundHalfEven(n, d) ==
  LET q == n \div d
      r == n % d
  IN IF 2 * r < d THEN q
     ELSE IF 2 * r > d THEN q + 1
     ELSE IF q % 2 = 0 THEN q ELSE q + 1

\* The silence segment has been built
SilenceMade ==
  \/ pc \in {"loop", "concatenated", "done"}
  \/ pc = "failed" /\ raised_in \in {"process_chunk", "concatenate"}

\* The silence segments appended so far: every second entry of audio_chunks
Gaps == {audio_chunks[k] : k \in {j \in 1..Len(audio_chunks) : j % 2 = 0}}

\* C4: once process_chunk has raised for a chunk, convert has ended with
\* that error: the failing chunk is the last one processed, nothing was
\* concatenated and the output file was not written.
C4_ChunkFailureAborts ==
  raised_in = "process_chunk" =>
     /\ pc = "failed"
     /\ error \in {"ValueError", "KeyError", "RuntimeError"}
     /\ i <= Len(chunks)
     /\ Len(processed) = i
     /\ processed[i] = chunks[i]
     /\ Len(produced) = i - 1
     /\ ~concatenated /\ combined_audio = <<>>
     /\ ~written /\ output_file = <<>>

\* A chunk failed after audio was produced for an earlier chunk and with a
\* later chunk still to process
C4_Witness ==
  /\ raised_in = "process_chunk"
  /\ 1 < i /\ i < Len(chunks)
  /\ produced[1] # <<>>

\* C5: for an empty or all-whitespace input the normalized text is empty,
\* there are no chunks, and convert does not end with an error raised from
\* the assembly step.
C5_EmptyInputNoCrash ==
  (file # NoFile /\ AllWhitespace(file)) =>
     /\ pc # "start" => input_text = <<>>
     /\ pc \notin {"start", "normalized"} => chunks = <<>>
     /\ ~(pc = "failed" /\ raised_in = "concatenate")

\* C6: when convert succeeds on n chunks, the chunks were processed one by
\* one in chunker order and the waveform written is audio(chunk_1), silence,
\* ..., audio(chunk_n), silence, of length sum(len(audio_k)) + n * s.
C6_AssembledWaveform ==
  pc = "done" =>
     LET n == Len(chunks)
         s == Len(silence)
     IN /\ processed = chunks
        /\ Len(produced) = n
        /\ combined_audio =
             ConcatAll([k \in 1..n |-> produced[k] \o Zeros(s)])
        /\ output_file = combined_audio
        /\ Len(output_file) = SumLen(produced) + n * s

\* Two chunks with audible audio and a non-empty silence were assembled
C6_Witness ==
  /\ pc = "done"
  /\ Len(chunks) >= 2
  /\ Len(silence) >= 1
  /\ \A k \in 1..Len(produced) : produced[k] # <<>>

C9_Interspersed ==
  tpc \in {"mapped", "returned"} =>
     \A b \in 1..texts :
        LET n == Len(phonemes[b])
            at(j) == tokens[b][j + 1]   \* the entry at 0-based index j
        IN /\ Len(tokens[b]) = 2 * n + 1
           /\ \A j \in 0..(n - 1) : at(2 * j + 1) = vocab_dict[phonemes[b][j + 1]]
           /\ \A j \in 0..n : at(2 * j) = 0

\* Two different tokens, neither the separator, have been interspersed
C9_Witness ==
  /\ tpc = "mapped"
  /\ \E b \in 1..texts :
        /\ Len(phonemes[b]) >= 2
        /\ tokens[b][2] # tokens[b][4]
        /\ tokens[b][2] # 0 /\ tokens[b][4] # 0

\* C10: for a non-empty batch every returned row has the length of the
\* longest sequence before padding, begins with its sequence unchanged and is
\* 0 after it, and lengths[b] is the length of sequence b before padding.
C10_Padded ==
  tpc = "returned" =>
     /\ texts >= 1 /\ Len(padded) = texts /\ Len(tokens_lengths) = texts
     /\ \E m \in {Len(tokens[b]) : b \in 1..texts} :
           /\ \A b \in 1..texts : Len(tokens[b]) <= m
           /\ \A b \in 1..texts :
                 /\ Len(padded[b]) = m
                 /\ SubSeq(padded[b], 1, Len(tokens[b])) = tokens[b]
                 /\ \A k \in (Len(tokens[b]) + 1)..m : padded[b][k] = 0
                 /\ tokens_lengths[b] = Len(tokens[b])
                 /\ tokens_lengths[b] <= m

\* A batch of sequences of different lengths has been padded
C10_Witness ==
  /\ tpc = "returned"
  /\ \E b, c \in 1..texts :
        /\ Len(tokens[b]) < Len(tokens[c])
        /\ Len(padded[b]) = Len(padded[c])
        /\ \E k \in 1..Len(tokens[b]) : tokens[b][k] # 0

====
